---- MODULE Spec2Model ----
(***************************************************************************)
(* The real-time order-event notification channel of the guest-house app. *)
(*                                                                         *)
(* Client side: WebSocketProvider (client/src/hooks/use-websocket-        *)
(* context.tsx), one record of refs per mounted provider instance plus    *)
(* the module-level flag isProviderMounted.                                *)
(* Server side: the WebSocket server set up in registerRoutes             *)
(* (server/routes.ts, here src/unnamed/part_003).                          *)
(*                                                                         *)
(* Time is counted in ticks of 1000 ms.  The client never reads the clock *)
(* except to compare Date.now() with lastConnectionAttemptRef, so the     *)
(* model keeps the elapsed time since that ref was written (saturating at *)
(* the 3000 ms window) and the wait left on each pending setTimeout.      *)
(***************************************************************************)
EXTENDS Integers, FiniteSets, Sequences, TLC

\* ---------------------------------------------------------------- bounds
\* provider instances of the runtime
NumProviders == 3
\* of them, the instances that mount in the timing specifications
Pair == 2
\* closes without an open in between: up to the 30 s ceiling of the backoff
MaxAttempts == 6
\* the same where the length of the backoff sequence does not matter
MaxRetries == 2
\* server: transport connections, orders the store can hold, calls in flight
NumSessions == 3
MaxOrders == 2
MaxCalls == 2

\* ------------------------------------------------------ program constants
\* use-websocket-context.tsx:77   now - lastConnectionAttemptRef.current < 3000
MIN_INTERVAL == 3
\* use-websocket-context.tsx:146  1000 * Math.pow(2, attempts - 1)
BASE_DELAY == 1
\* use-websocket-context.tsx:146  Math.min(..., 30000)
MAX_DELAY == 30
\* use-websocket-context.tsx:133  reconnectAttemptsRef.current > 2
TOAST_AFTER == 2

Providers == 1..NumProviders

Min(a, b) == IF a < b THEN a ELSE b

RECURSIVE Pow2(_)
Pow2(n) == IF n <= 0 THEN 1 ELSE 2 * Pow2(n - 1)

\* ------------------------------------------------------------ the handle
Handlers == {"open", "close", "message", "error"}

\* socketRef.current === null
NoSocket == [rs |-> "NULL", on |-> {}, ar |-> FALSE, st |-> FALSE]

\* new WebSocket(wsUrl) followed by the four handler assignments.  The handlers are
\* closures over the props autoReconnect (ar) and showToasts (st) of the render
\* that made this connectSocket.
NewSocket(ar, st) == [rs |-> "CONNECTING", on |-> Handlers, ar |-> ar, st |-> st]

\* reconnectTimeoutRef.current === null
NoTimer == [delay |-> 0, left |-> 0]

\* window.setTimeout(callback, delay): the delay asked for and the ticks still to
\* pass before the callback may run.  The only thing the callback's outcome can
\* depend on is whether MIN_INTERVAL has passed since the last attempt, and every
\* clock of the model saturates there, so the wait is counted up to MIN_INTERVAL.
SetTimeout(delay) == [delay |-> delay, left |-> IF delay < MIN_INTERVAL THEN delay ELSE MIN_INTERVAL]

\* no provider acted / nothing was emitted in the last step
Quiet == [by |-> 0, evs |-> {}]

VARIABLES
  isProviderMounted,   \* module-level flag
  mounted,             \* React: the mount effect of instance i is in force
  socket,              \* socketRef.current
  old,                 \* handles the instance no longer references, not yet closed
  timer,               \* reconnectTimeoutRef.current: the pending timer, or NoTimer
  timers,              \* history: timeouts the instance set, not yet run or cleared
  reconnectAttempts,   \* reconnectAttemptsRef.current
  isUnmounting,        \* isUnmountingRef.current
  sinceAttempt,        \* Date.now() - lastConnectionAttemptRef.current, saturating
  isConnected,         \* useState
  lastMessage,         \* useState
  fired,               \* what the last step emitted: callbacks, toasts, bus events
  sinceCreate,         \* history: ticks since this instance's last new WebSocket
  closes               \* history: onclose runs of this instance since its last onopen

clientVars == <<isProviderMounted, mounted, socket, old,
                timer, timers, reconnectAttempts, isUnmounting, sinceAttempt, isConnected,
                lastMessage, fired, sinceCreate, closes>>

VARIABLES
  rs,                  \* ws.readyState of the session's server-side socket
  isAlive,             \* (ws as any).isAlive
  greeting,            \* the setTimeout(..., 100) of the connection handler is pending
  greeted,             \* history: connection envelopes sent to the session's socket
  clients,             \* const clients = new Set<WebSocket>()
  wssClients,          \* wss.clients (clientTracking: true)
  orders,              \* the store: order id -> status
  calls,               \* storage calls awaiting the underlying operation
  out                  \* what the last server step did: sends, terminations, result

serverVars == <<rs, isAlive, greeting, greeted, clients, wssClients, orders, calls, out>>

vars == <<clientVars, serverVars>>

\* ------------------------------------------------------- handle helpers
\* readyState === WebSocket.OPEN || readyState === WebSocket.CONNECTING
Active(sock) == sock.rs \in {"OPEN", "CONNECTING"}

\* sock.onX = null for every X in hs.  autoReconnect is read by onclose alone and
\* showToasts by the handlers alone: a handle keeps them while such a handler is on it.
Detach(sock, hs) ==
  LET on == sock.on \ hs IN
  [sock EXCEPT !.on = on, !.ar = @ /\ "close" \in on, !.st = @ /\ on # {}]

\* mutant: the handle is dropped without close()
CloseForgotten(sock) == sock

\* sock.close(): an open or connecting handle starts closing, others are unchanged
Close(sock) == IF Active(sock) THEN [sock EXCEPT !.rs = "CLOSING"] ELSE sock

\* unreferenced handles that still matter: open or connecting ones, and closing
\* ones whose outstanding close can still run a handler
Pending(hs) == {h \in hs : Active(h) \/ (h.rs = "CLOSING" /\ h.on # {})}

\* mutant: the reference is reset without cancelling the timeout
ClearTimeoutForgotten(tmr, n) == n

\* if (reconnectTimeoutRef.current) clearTimeout(reconnectTimeoutRef.current):
\* the timeouts of the instance that remain of n
ClearTimeout(tmr, n) == IF tmr # NoTimer THEN n - 1 ELSE n

\* ------------------------------------------------------- connectSocket
\* if (isProviderMounted && !socketRef.current) return;
OwnedElsewhere(flag, sock) == flag /\ sock = NoSocket

\* mutant: the window check is dropped
RateLimitedNever(since) == FALSE

\* if (now - lastConnectionAttemptRef.current < 3000) return;
RateLimited(since) == since < MIN_INTERVAL

\* The handle connectSocket replaces: all four handlers removed, then close().
Replaced(sock) == IF sock = NoSocket THEN {} ELSE {Close(Detach(sock, Handlers))}

\* connectSocket() called with the flag and the refs as they are at the call.
ConnectSocket(flag, sock, unm, since, ar, st) ==
  IF \/ OwnedElsewhere(flag, sock)
     \/ unm
     \/ Active(sock)
     \/ RateLimited(since)
  THEN [created |-> FALSE, socket |-> sock, dropped |-> {}, since |-> since]
  ELSE [created |-> TRUE, socket |-> NewSocket(ar, st), dropped |-> Replaced(sock), since |-> 0]

\* mutant: the exponent is off by one
BackoffDelayOffByOne(attempts) == Min(BASE_DELAY * Pow2(attempts), MAX_DELAY)

\* Math.min(1000 * Math.pow(2, attempts - 1), 30000), in ticks
BackoffDelay(attempts) == Min(BASE_DELAY * Pow2(attempts - 1), MAX_DELAY)

Emit(i, evs) == IF evs = {} THEN Quiet ELSE [by |-> i, evs |-> evs]

\* The part of a step that calls connectSocket(): the refs it writes and what it emits.
CallConnect(i, flag, sock, unm, since, created0, dropped0, ar, st) ==
  LET r == ConnectSocket(flag, sock, unm, since, ar, st) IN
  /\ socket' = [socket EXCEPT ![i] = r.socket]
  /\ sinceAttempt' = [sinceAttempt EXCEPT ![i] = r.since]
  /\ old' = [old EXCEPT ![i] = Pending(@ \cup dropped0 \cup r.dropped)]
  /\ sinceCreate' = [sinceCreate EXCEPT ![i] = IF r.created THEN 0 ELSE created0]
  /\ fired' = Emit(i, IF r.created THEN {"new WebSocket"} ELSE {})

\* ------------------------------------------------------------------ Init
ClientInit ==
  /\ isProviderMounted = FALSE
  /\ mounted = [i \in Providers |-> FALSE]
  /\ socket = [i \in Providers |-> NoSocket]
  /\ old = [i \in Providers |-> {}]
  /\ timer = [i \in Providers |-> NoTimer]
  /\ timers = [i \in Providers |-> 0]
  /\ reconnectAttempts = [i \in Providers |-> 0]
  /\ isUnmounting = [i \in Providers |-> FALSE]
  /\ sinceAttempt = [i \in Providers |-> MIN_INTERVAL]
  /\ isConnected = [i \in Providers |-> FALSE]
  /\ lastMessage = [i \in Providers |-> "none"]
  /\ fired = Quiet
  /\ sinceCreate = [i \in Providers |-> MIN_INTERVAL]
  /\ closes = [i \in Providers |-> [sinceOpen |-> 0, sinceReset |-> 0]]

\* --------------------------------------------------------- mount effect
\* The refs and state of a component instance as React creates them.
InitialRefs(i) ==
  /\ timer' = [timer EXCEPT ![i] = NoTimer]
  /\ timers' = [timers EXCEPT ![i] = 0]
  /\ reconnectAttempts' = [reconnectAttempts EXCEPT ![i] = 0]
  /\ isConnected' = [isConnected EXCEPT ![i] = FALSE]
  /\ lastMessage' = [lastMessage EXCEPT ![i] = "none"]
  /\ closes' = [closes EXCEPT ![i] = [sinceOpen |-> 0, sinceReset |-> 0]]

\* What the cleanup does to the handle: handlers removed, close() if it is open or
\* connecting, socketRef.current = null.
CleanupSocket(sock) == IF sock = NoSocket THEN {} ELSE {Close(Detach(sock, Handlers))}

\* mutant: the cleanup leaves the timer pending
CleanupTimerKept(tmr) == tmr

\* if (reconnectTimeoutRef.current) { clearTimeout(...); ... = null }
CleanupTimer(tmr) == NoTimer

\* isUnmountingRef.current = true
CleanupUnmounting == TRUE

\* useEffect(() => { isUnmountingRef.current = false; isProviderMounted = true;
\*                   connectSocket(); return cleanup }, [connectSocket])
\* run for a new component instance in slot i.  A slot is free once nothing of its
\* former instance can run any more.
Mount(i, ar, st) ==
  /\ ~mounted[i]
  /\ timer[i] = NoTimer
  /\ old[i] = {}
  /\ socket[i] = NoSocket
  /\ mounted' = [mounted EXCEPT ![i] = TRUE]
  /\ isUnmounting' = [isUnmounting EXCEPT ![i] = FALSE]
  /\ isProviderMounted' = TRUE
  /\ InitialRefs(i)
  /\ CallConnect(i, TRUE, NoSocket, FALSE, MIN_INTERVAL, MIN_INTERVAL, {}, ar, st)

\* A removed instance is garbage once nothing of it can run: no timer and no
\* unreferenced handle with a handler.  Its refs are then shown as a new instance
\* would have them, so that a slot has one state per observable situation.
Garbage(i, tmr, hs) == ~mounted'[i] /\ tmr = NoTimer /\ hs = {}

Discard(i) ==
  /\ reconnectAttempts' = [reconnectAttempts EXCEPT ![i] = 0]
  /\ sinceAttempt' = [sinceAttempt EXCEPT ![i] = MIN_INTERVAL]
  /\ sinceCreate' = [sinceCreate EXCEPT ![i] = MIN_INTERVAL]
  /\ isConnected' = [isConnected EXCEPT ![i] = FALSE]
  /\ lastMessage' = [lastMessage EXCEPT ![i] = "none"]
  /\ closes' = [closes EXCEPT ![i] = [sinceOpen |-> 0, sinceReset |-> 0]]

\* The cleanup of the mount effect when the component is removed.
Unmount(i) ==
  LET tmr == CleanupTimer(timer[i])
      rest == Pending(old[i] \cup CleanupSocket(socket[i]))
  IN
  /\ mounted[i]
  /\ mounted' = [mounted EXCEPT ![i] = FALSE]
  /\ isUnmounting' = [isUnmounting EXCEPT ![i] = CleanupUnmounting]
  /\ isProviderMounted' = FALSE
  /\ timer' = [timer EXCEPT ![i] = tmr]
  /\ timers' = [timers EXCEPT ![i] = ClearTimeout(timer[i], @)]
  /\ socket' = [socket EXCEPT ![i] = NoSocket]
  /\ old' = [old EXCEPT ![i] = rest]
  /\ fired' = Quiet
  /\ IF Garbage(i, tmr, rest)
     THEN Discard(i)
     ELSE UNCHANGED <<reconnectAttempts, sinceAttempt, sinceCreate, isConnected,
                      lastMessage, closes>>

\* connectSocket changed identity (a callback prop or showToasts changed): React
\* runs the cleanup and then the effect again, in one commit, on the same refs.
Rerun(i, ar, st) ==
  /\ mounted[i]
  /\ isUnmounting' = [isUnmounting EXCEPT ![i] = FALSE]
  /\ isProviderMounted' = TRUE
  /\ timer' = [timer EXCEPT ![i] = CleanupTimer(timer[i])]
  /\ timers' = [timers EXCEPT ![i] = ClearTimeout(timer[i], @)]
  /\ CallConnect(i, TRUE, NoSocket, FALSE, sinceAttempt[i], sinceCreate[i],
                 CleanupSocket(socket[i]), ar, st)
  /\ UNCHANGED <<mounted, reconnectAttempts, isConnected, lastMessage, closes>>

\* --------------------------------------------------- handlers of a handle
\* socket.onopen
OnOpen(st) ==
  LET attempts == 0 IN
  [isConnected |-> TRUE, attempts |-> attempts,
   evs |-> {"onConnect"} \cup
           (IF st /\ attempts > 0 THEN {"toast:Connected to server"} ELSE {})]

\* mutant: the error alert is raised at every error
OnErrorAlways(st, attempts) ==
  IF st THEN {"toast:Connection Error"} ELSE {}

\* socket.onerror
OnError(st, attempts) ==
  IF st /\ attempts > TOAST_AFTER THEN {"toast:Connection Error"} ELSE {}

\* mutant: onclose does nothing
OnCloseIgnored(unm, ar, st, attempts, tmr, conn) ==
  [isConnected |-> conn, attempts |-> attempts, timer |-> tmr, evs |-> {}]

\* socket.onclose
OnClose(unm, ar, st, attempts, tmr, conn) ==
  IF unm
  THEN [isConnected |-> conn, attempts |-> attempts, timer |-> tmr, evs |-> {}]
  ELSE LET schedule == ar /\ tmr = NoTimer /\ ~unm IN
       [isConnected |-> FALSE,
        attempts |-> IF schedule THEN attempts + 1 ELSE attempts,
        timer |-> IF schedule THEN SetTimeout(BackoffDelay(attempts + 1)) ELSE tmr,
        evs |-> {"onDisconnect"}
                \cup (IF st /\ attempts > TOAST_AFTER
                      THEN {"toast:Disconnected from server"} ELSE {})
                \cup (IF schedule THEN {"setTimeout"} ELSE {})]

\* socket.onmessage: the frame kinds are the envelope types, an unknown type and a
\* frame JSON.parse rejects; isAdmin and isMyOrder are what localStorage holds.
Frames == {"malformed", "connection", "echo", "unknown", "new-order", "order-status-update"}

\* mutant: the dispatcher records the envelope and does nothing else
OnMessageQuiet(st, frame, isAdmin, isMyOrder, last) ==
  IF frame = "malformed" THEN [lastMessage |-> last, evs |-> {}]
  ELSE [lastMessage |-> frame, evs |-> {}]

\* mutant: a frame that does not parse is recorded like an unknown envelope
OnMessageUnparsed(st, frame, isAdmin, isMyOrder, last) ==
  [lastMessage |-> frame, evs |-> {}]

\* mutant: an envelope of another type is handled as a new order
OnMessageLoud(st, frame, isAdmin, isMyOrder, last) ==
  IF frame = "malformed" THEN [lastMessage |-> last, evs |-> {}]
  ELSE [lastMessage |-> frame, evs |-> {"ws:new-order", "onNewOrder"}]

OnMessage(st, frame, isAdmin, isMyOrder, last) ==
  IF frame = "malformed" THEN [lastMessage |-> last, evs |-> {}]
  ELSE [lastMessage |-> frame,
        evs |-> CASE frame = "new-order" ->
                       {"ws:new-order", "onNewOrder"}
                       \cup (IF st /\ isAdmin THEN {"toast:New Order Received"} ELSE {})
                  [] frame = "order-status-update" ->
                       {"ws:order-status-update", "onOrderStatusUpdate"}
                       \cup (IF st /\ (isAdmin \/ isMyOrder)
                             THEN {"toast:Order Status Updated"} ELSE {})
                  [] frame = "connection" -> {"ws:connection"}
                  [] OTHER -> {}]

\* The close event of a handle h of instance i (after its error event when the
\* connection failed): what the attached handlers do to the refs.
CloseEvent(i, h, failed) ==
  LET e == IF failed /\ "error" \in h.on
           THEN OnError(h.st, reconnectAttempts[i]) ELSE {}
      c == IF "close" \in h.on
           THEN OnClose(isUnmounting[i], h.ar, h.st,
                        reconnectAttempts[i], timer[i], isConnected[i])
           ELSE [isConnected |-> isConnected[i], attempts |-> reconnectAttempts[i],
                 timer |-> timer[i], evs |-> {}]
      counted == "close" \in h.on /\ mounted[i] /\ h.ar
  IN
  /\ isConnected' = [isConnected EXCEPT ![i] = c.isConnected]
  /\ reconnectAttempts' = [reconnectAttempts EXCEPT ![i] = c.attempts]
  /\ timer' = [timer EXCEPT ![i] = c.timer]
  /\ timers' = [timers EXCEPT ![i] = IF "setTimeout" \in c.evs THEN @ + 1 ELSE @]
  /\ fired' = Emit(i, e \cup c.evs)
  /\ closes' = [closes EXCEPT ![i] =
                  IF counted
                  THEN [sinceOpen |-> @.sinceOpen + 1, sinceReset |-> @.sinceReset + 1]
                  ELSE @]

\* ------------------------------------------------- events of the handle
\* The server accepted the connection: readyState becomes OPEN, onopen runs.
SocketOpen(i) ==
  /\ socket[i].rs = "CONNECTING"
  /\ socket' = [socket EXCEPT ![i].rs = "OPEN"]
  /\ IF "open" \in socket[i].on
     THEN LET o == OnOpen(socket[i].st) IN
          /\ isConnected' = [isConnected EXCEPT ![i] = o.isConnected]
          /\ reconnectAttempts' = [reconnectAttempts EXCEPT ![i] = o.attempts]
          /\ closes' = [closes EXCEPT ![i] = [sinceOpen |-> 0, sinceReset |-> 0]]
          /\ fired' = Emit(i, o.evs)
     ELSE /\ fired' = Quiet
          /\ UNCHANGED <<isConnected, reconnectAttempts, closes>>
  /\ UNCHANGED <<isProviderMounted, mounted, old, timer, timers,
                 isUnmounting, sinceAttempt, lastMessage, sinceCreate>>

\* The server started the closing handshake: readyState becomes CLOSING.
RemoteClosing(i) ==
  /\ socket[i].rs = "OPEN"
  /\ socket' = [socket EXCEPT ![i].rs = "CLOSING"]
  /\ fired' = Quiet
  /\ UNCHANGED <<isProviderMounted, mounted, old, timer, timers,
                 reconnectAttempts, isUnmounting, sinceAttempt, isConnected,
                 lastMessage, sinceCreate, closes>>

\* The connection of the current handle ended (refused, dropped, closed by the
\* server): readyState becomes CLOSED, then error (if it failed) and close fire.
SocketClose(i, failed, cap) ==
  /\ socket[i].rs \in {"CONNECTING", "OPEN", "CLOSING"}
  /\ reconnectAttempts[i] < cap
  /\ closes[i].sinceOpen < cap
  /\ socket' = [socket EXCEPT ![i].rs = "CLOSED"]
  /\ CloseEvent(i, socket[i], failed)
  /\ UNCHANGED <<isProviderMounted, mounted, old,
                 isUnmounting, sinceAttempt, lastMessage, sinceCreate>>

\* mutant: onerror marks the manager disconnected
ErrorEventDisconnects(i) ==
  /\ socket[i].rs \in {"CONNECTING", "OPEN", "CLOSING"}
  /\ "error" \in socket[i].on
  /\ fired' = [by |-> i, evs |-> OnError(socket[i].st, reconnectAttempts[i])]
  /\ isConnected' = [isConnected EXCEPT ![i] = FALSE]
  /\ UNCHANGED <<isProviderMounted, mounted, socket, old, timer, timers,
                 reconnectAttempts, isUnmounting, sinceAttempt,
                 lastMessage, sinceCreate, closes>>

\* The error event of the current handle, taken on its own: onerror runs.  The
\* close event of the failed connection follows as SocketClose.
ErrorEvent(i) ==
  /\ socket[i].rs \in {"CONNECTING", "OPEN", "CLOSING"}
  /\ "error" \in socket[i].on
  /\ fired' = [by |-> i, evs |-> OnError(socket[i].st, reconnectAttempts[i])]
  /\ UNCHANGED <<isProviderMounted, mounted, socket, old, timer, timers,
                 reconnectAttempts, isUnmounting, sinceAttempt, isConnected,
                 lastMessage, sinceCreate, closes>>

\* The same for a handle the instance no longer references.
OldClose(i, h, failed, cap) ==
  LET rest == old[i] \ {h} IN
  /\ h \in old[i]
  /\ reconnectAttempts[i] < cap
  /\ closes[i].sinceOpen < cap
  /\ old' = [old EXCEPT ![i] = rest]
  /\ UNCHANGED <<isProviderMounted, mounted, socket, isUnmounting>>
  /\ IF "close" \notin h.on /\ Garbage(i, timer[i], rest)
     THEN /\ fired' = Emit(i, IF failed /\ "error" \in h.on
                              THEN OnError(h.st, reconnectAttempts[i]) ELSE {})
          /\ timer' = timer
          /\ timers' = timers
          /\ Discard(i)
     ELSE /\ CloseEvent(i, h, failed)
          /\ UNCHANGED <<sinceAttempt, sinceCreate, lastMessage>>

\* A frame arrives on the open current handle.
Message(i, frame, isAdmin, isMyOrder) ==
  /\ socket[i].rs = "OPEN"
  /\ "message" \in socket[i].on
  /\ LET m == OnMessage(socket[i].st, frame, isAdmin, isMyOrder, lastMessage[i]) IN
     /\ lastMessage' = [lastMessage EXCEPT ![i] = m.lastMessage]
     /\ fired' = [by |-> i, evs |-> m.evs]
  /\ UNCHANGED <<isProviderMounted, mounted, socket, old,
                 timer, timers, reconnectAttempts, isUnmounting, sinceAttempt,
                 isConnected, sinceCreate, closes>>

\* localStorage 'orderDetails' as the page remembers the guest's last order ({}
\* when there is none), and the contact fields of the order in an envelope.
Rooms == {"101", "204"}

Mobiles == {"9800000001", "9800000002"}

OrderDetails ==
  [roomNumber : Rooms \cup {"undefined"}, mobileNumber : Mobiles \cup {"undefined"}]

OrderContacts == [roomNumber : Rooms, mobileNumber : Mobiles]

\* mutant: every status update counts as the client's own
IsMyOrderAlways(details, order) == TRUE

\* orderDetails.roomNumber === data.order.roomNumber ||
\* orderDetails.mobileNumber === data.order.mobileNumber
IsMyOrder(details, order) ==
  \/ details.roomNumber = order.roomNumber
  \/ details.mobileNumber = order.mobileNumber

\* An order-status-update envelope for order arrives while localStorage holds
\* adminLoggedIn = isAdmin and orderDetails = details.
StatusUpdate(i, isAdmin, details, order) ==
  Message(i, "order-status-update", isAdmin, IsMyOrder(details, order))

\* ------------------------------------------------ timer, visibility, manual
\* The setTimeout callback of onclose:
\*   reconnectTimeoutRef.current = null; if (!isUnmountingRef.current) connectSocket();
\* connectSocket here is the closure that made the handle whose onclose set the
\* timer, so the new handle's handlers close over the same props.
TimerFire(i) ==
  /\ timer[i] # NoTimer
  /\ timer[i].left = 0
  /\ timer' = [timer EXCEPT ![i] = NoTimer]
  /\ timers' = [timers EXCEPT ![i] = @ - 1]
  /\ CallConnect(i, isProviderMounted, socket[i], isUnmounting[i],
                 sinceAttempt[i], sinceCreate[i], {}, socket[i].ar, socket[i].st)
  /\ UNCHANGED <<isProviderMounted, mounted,
                 reconnectAttempts, isUnmounting, isConnected, lastMessage, closes>>

\* handleVisibilityChange, registered while the instance is mounted.
VisibilityChange(i, visible, ar, st) ==
  /\ mounted[i]
  /\ IF visible /\ ~Active(socket[i])
     THEN /\ timer' = [timer EXCEPT ![i] = NoTimer]
          /\ timers' = [timers EXCEPT ![i] = ClearTimeout(timer[i], @)]
          /\ CallConnect(i, isProviderMounted, socket[i], isUnmounting[i],
                         sinceAttempt[i], sinceCreate[i], {}, ar, st)
     ELSE /\ fired' = Quiet
          /\ UNCHANGED <<timer, timers, socket, sinceAttempt, old, sinceCreate>>
  /\ UNCHANGED <<isProviderMounted, mounted,
                 reconnectAttempts, isUnmounting, isConnected, lastMessage, closes>>

\* reconnect(), exposed through the context to the children of a mounted provider.
Reconnect(i, ar, st) ==
  /\ mounted[i]
  /\ reconnectAttempts' = [reconnectAttempts EXCEPT ![i] = 0]
  /\ timer' = [timer EXCEPT ![i] = NoTimer]
  /\ timers' = [timers EXCEPT ![i] = ClearTimeout(timer[i], @)]
  /\ closes' = [closes EXCEPT ![i].sinceReset = 0]
  /\ CallConnect(i, isProviderMounted, NoSocket, isUnmounting[i],
                 sinceAttempt[i], sinceCreate[i],
                 IF socket[i] = NoSocket THEN {}
                 ELSE {Close(Detach(socket[i], {"close"}))},
                 ar, st)
  /\ UNCHANGED <<isProviderMounted, mounted,
                 isUnmounting, isConnected, lastMessage>>

\* 1000 ms pass.  A timer never fires early; it may fire late.
Tick ==
  /\ \E i \in Providers : sinceAttempt[i] < MIN_INTERVAL \/ timer[i].left > 0
  /\ sinceAttempt' = [i \in Providers |-> Min(sinceAttempt[i] + 1, MIN_INTERVAL)]
  /\ sinceCreate' = [i \in Providers |-> Min(sinceCreate[i] + 1, MIN_INTERVAL)]
  /\ timer' = [i \in Providers |->
                 IF timer[i].left > 0 THEN [timer[i] EXCEPT !.left = @ - 1] ELSE timer[i]]
  /\ fired' = Quiet
  /\ UNCHANGED <<isProviderMounted, mounted, socket, old, timers,
                 reconnectAttempts, isUnmounting, isConnected, lastMessage, closes>>

\* ======================================================= standalone hook
\* client/src/hooks/use-websocket.tsx: useWebSocket keeps the same refs and puts the
\* same onopen, onclose and onerror on its handle as the provider; it has no
\* module flag and no rate limit, and its connectSocket removes onclose alone from
\* the handle it replaces.  An instance slot holds a provider or a hook.
HookReplaced(sock) ==
  IF sock = NoSocket THEN {} ELSE {Close(Detach(sock, {"close"}))}

HookConnectSocket(sock, unm, ar, st) ==
  IF unm \/ Active(sock)
  THEN [created |-> FALSE, socket |-> sock, dropped |-> {}]
  ELSE [created |-> TRUE, socket |-> NewSocket(ar, st), dropped |-> HookReplaced(sock)]

HookCallConnect(i, sock, unm, dropped0, ar, st) ==
  LET r == HookConnectSocket(sock, unm, ar, st) IN
  /\ socket' = [socket EXCEPT ![i] = r.socket]
  /\ old' = [old EXCEPT ![i] = Pending(@ \cup dropped0 \cup r.dropped)]
  /\ fired' = Emit(i, IF r.created THEN {"new WebSocket"} ELSE {})

\* useEffect(() => { isUnmountingRef.current = false; connectSocket(); return cleanup })
HookMount(i, ar, st) ==
  /\ ~mounted[i]
  /\ timer[i] = NoTimer
  /\ old[i] = {}
  /\ socket[i] = NoSocket
  /\ mounted' = [mounted EXCEPT ![i] = TRUE]
  /\ isUnmounting' = [isUnmounting EXCEPT ![i] = FALSE]
  /\ InitialRefs(i)
  /\ HookCallConnect(i, NoSocket, FALSE, {}, ar, st)
  /\ UNCHANGED <<isProviderMounted, sinceAttempt, sinceCreate>>

\* the cleanup of the hook's mount effect when the component is removed
HookUnmount(i) ==
  LET tmr == CleanupTimer(timer[i])
      rest == Pending(old[i] \cup CleanupSocket(socket[i]))
  IN
  /\ mounted[i]
  /\ mounted' = [mounted EXCEPT ![i] = FALSE]
  /\ isUnmounting' = [isUnmounting EXCEPT ![i] = CleanupUnmounting]
  /\ timer' = [timer EXCEPT ![i] = tmr]
  /\ timers' = [timers EXCEPT ![i] = ClearTimeout(timer[i], @)]
  /\ socket' = [socket EXCEPT ![i] = NoSocket]
  /\ old' = [old EXCEPT ![i] = rest]
  /\ fired' = Quiet
  /\ isProviderMounted' = isProviderMounted
  /\ IF Garbage(i, tmr, rest)
     THEN Discard(i)
     ELSE UNCHANGED <<reconnectAttempts, sinceAttempt, sinceCreate, isConnected,
                      lastMessage, closes>>

\* connectSocket changed identity: cleanup, then the effect again
HookRerun(i, ar, st) ==
  /\ mounted[i]
  /\ isUnmounting' = [isUnmounting EXCEPT ![i] = FALSE]
  /\ timer' = [timer EXCEPT ![i] = CleanupTimer(timer[i])]
  /\ timers' = [timers EXCEPT ![i] = ClearTimeout(timer[i], @)]
  /\ HookCallConnect(i, NoSocket, FALSE, CleanupSocket(socket[i]), ar, st)
  /\ UNCHANGED <<isProviderMounted, mounted, sinceAttempt, sinceCreate, reconnectAttempts,
                 isConnected, lastMessage, closes>>

\* the setTimeout callback of the hook's onclose
HookTimerFire(i) ==
  /\ timer[i] # NoTimer
  /\ timer[i].left = 0
  /\ timer' = [timer EXCEPT ![i] = NoTimer]
  /\ timers' = [timers EXCEPT ![i] = @ - 1]
  /\ HookCallConnect(i, socket[i], isUnmounting[i], {}, socket[i].ar, socket[i].st)
  /\ UNCHANGED <<isProviderMounted, mounted, sinceAttempt, sinceCreate,
                 reconnectAttempts, isUnmounting, isConnected, lastMessage, closes>>

\* the hook's handleVisibilityChange
HookVisibilityChange(i, visible, ar, st) ==
  /\ mounted[i]
  /\ IF visible /\ ~Active(socket[i])
     THEN /\ timer' = [timer EXCEPT ![i] = NoTimer]
          /\ timers' = [timers EXCEPT ![i] = ClearTimeout(timer[i], @)]
          /\ HookCallConnect(i, socket[i], isUnmounting[i], {}, ar, st)
     ELSE /\ fired' = Quiet
          /\ UNCHANGED <<timer, timers, socket, old>>
  /\ UNCHANGED <<isProviderMounted, mounted, sinceAttempt, sinceCreate,
                 reconnectAttempts, isUnmounting, isConnected, lastMessage, closes>>

\* the hook's reconnect()
HookReconnect(i, ar, st) ==
  /\ mounted[i]
  /\ reconnectAttempts' = [reconnectAttempts EXCEPT ![i] = 0]
  /\ timer' = [timer EXCEPT ![i] = NoTimer]
  /\ timers' = [timers EXCEPT ![i] = ClearTimeout(timer[i], @)]
  /\ closes' = [closes EXCEPT ![i].sinceReset = 0]
  /\ HookCallConnect(i, NoSocket, isUnmounting[i],
                     IF socket[i] = NoSocket THEN {}
                     ELSE {Close(Detach(socket[i], {"close"}))},
                     ar, st)
  /\ UNCHANGED <<isProviderMounted, mounted, sinceAttempt, sinceCreate,
                 isUnmounting, isConnected, lastMessage>>

\* the hook's socket.onmessage: as the provider's, without the document events
HookOnMessage(st, frame, isAdmin, isMyOrder, last) ==
  LET m == OnMessage(st, frame, isAdmin, isMyOrder, last) IN
  [m EXCEPT !.evs = @ \ {"ws:new-order", "ws:order-status-update", "ws:connection"}]

\* a frame arrives on the open current handle of a hook
HookMessage(i, frame, isAdmin, isMyOrder) ==
  /\ socket[i].rs = "OPEN"
  /\ "message" \in socket[i].on
  /\ LET m == HookOnMessage(socket[i].st, frame, isAdmin, isMyOrder, lastMessage[i]) IN
     /\ lastMessage' = [lastMessage EXCEPT ![i] = m.lastMessage]
     /\ fired' = [by |-> i, evs |-> m.evs]
  /\ UNCHANGED <<isProviderMounted, mounted, socket, old,
                 timer, timers, reconnectAttempts, isUnmounting, sinceAttempt,
                 isConnected, sinceCreate, closes>>

\* ================================================================ server
\* server/routes.ts (src/unnamed/part_003): the WebSocket server on /ws, the
\* liveness sweep, and the interceptors that rebind the store's createOrder and
\* updateOrderStatus.  One step is one callback of the Node event loop.
Sessions == 1..NumSessions

OrderIds == 1..(MaxOrders + 1)

\* wss.clients.forEach visits the Set in insertion order; the sessions are taken
\* in ascending order here, what each visit does depends on that client alone.
RECURSIVE SetOrder(_)
SetOrder(S) ==
  IF S = {} THEN <<>>
  ELSE LET c == CHOOSE x \in S : \A y \in S : x <= y IN <<c>> \o SetOrder(S \ {c})

\* No order where one could be: undefined (nothing returned, nothing carried) and
\* the null of a missing order, in the shape of an order so that they compare.
NoOrder == [id |-> 0, status |-> "none"]

NullOrder == [id |-> 0, status |-> "null"]

NoOut == [op |-> "none", result |-> "none",
          returned |-> NoOrder, sends |-> <<>>,
          threw |-> {}, terminated |-> {}, raised |-> FALSE]

Did(op, result) == [NoOut EXCEPT !.op = op, !.result = result]

\* ws.terminate(): nothing when CLOSED, otherwise CLOSING and the socket is
\* destroyed; the 'close' event follows in a later step.
Terminate(state) == IF state = "OPEN" THEN "CLOSING" ELSE state

ConnectionEnvelope == [type |-> "connection", order |-> NoOrder]

EchoEnvelope == [type |-> "echo", order |-> NoOrder]

NewOrderEnvelope(order) == [type |-> "new-order", order |-> order]

StatusUpdateEnvelope(order) == [type |-> "order-status-update", order |-> order]

ServerInit ==
  /\ rs = [s \in Sessions |-> "NONE"]
  /\ isAlive = [s \in Sessions |-> FALSE]
  /\ greeting = [s \in Sessions |-> FALSE]
  /\ greeted = [s \in Sessions |-> 0]
  /\ clients = {}
  /\ wssClients = {}
  /\ orders = <<>>
  /\ calls = {}
  /\ out = NoOut

Init == ClientInit /\ ServerInit

\* ------------------------------------------------------------- broadcast
\* client.send(message) inside try/catch: a throw is caught and the client is
\* terminated; TrySendUncaught is the send without the try/catch.
TrySendUncaught(fails) == IF fails THEN "raised" ELSE "sent"

TrySend(fails) == IF fails THEN "caught" ELSE "sent"

\* The forEach of broadcast over the clients still to visit: a client that is not
\* OPEN is skipped; an exception that escapes a visit ends the forEach.
RECURSIVE SendEach(_, _, _, _)
SendEach(todo, state, envelope, throws) ==
  IF todo = <<>>
  THEN [rs |-> state, sends |-> <<>>, threw |-> {}, terminated |-> {}, raised |-> FALSE]
  ELSE LET client == Head(todo) IN
       IF state[client] # "OPEN"
       THEN SendEach(Tail(todo), state, envelope, throws)
       ELSE LET sent == TrySend(client \in throws)
                call == <<[to |-> client, envelope |-> envelope]>>
            IN CASE sent = "sent" ->
                      [SendEach(Tail(todo), state, envelope, throws)
                         EXCEPT !.sends = call \o @]
                 [] sent = "caught" ->
                      [SendEach(Tail(todo),
                                [state EXCEPT ![client] = Terminate(@)], envelope, throws)
                         EXCEPT !.sends = call \o @,
                                !.threw = @ \cup {client},
                                !.terminated = @ \cup {client}]
                 [] OTHER ->
                      [rs |-> state, sends |-> call, threw |-> {client},
                       terminated |-> {}, raised |-> TRUE]

Broadcast(members, state, envelope, throws) ==
  SendEach(SetOrder(members), state, envelope, throws)

\* ---------------------------------------------------------------- sweep
TimedOutNever(alive) == FALSE

\* mutant: every client counts as timed out
TimedOutAlways(alive) == TRUE

\* (ws as any).isAlive === false
TimedOut(alive) == alive = FALSE

\* mutant: ws.ping() without the try/catch
TryPingUncaught(fails) == IF fails THEN "raised" ELSE "sent"

\* try { ws.ping() } catch (e) { ws.terminate() }
TryPing(fails) == IF fails THEN "caught" ELSE "sent"

\* The forEach of pingClients over the clients still to visit: a client that did
\* not answer the last ping is terminated; any other is marked not alive and
\* pinged, and terminated when ping() throws.  An exception that escapes a visit
\* ends the forEach.
RECURSIVE PingVisit(_, _, _, _)
PingVisit(todo, state, alive, throws) ==
  IF todo = <<>>
  THEN [rs |-> state, isAlive |-> alive, pinged |-> {}, threw |-> {},
        terminated |-> {}, raised |-> FALSE]
  ELSE LET client == Head(todo) IN
       IF TimedOut(alive[client])
       THEN [PingVisit(Tail(todo), [state EXCEPT ![client] = Terminate(@)], alive, throws)
               EXCEPT !.terminated = @ \cup {client}]
       ELSE LET marked == [alive EXCEPT ![client] = FALSE]
                sent == TryPing(client \in throws)
            IN CASE sent = "sent" ->
                      [PingVisit(Tail(todo), state, marked, throws)
                         EXCEPT !.pinged = @ \cup {client}]
                 [] sent = "caught" ->
                      [PingVisit(Tail(todo),
                                 [state EXCEPT ![client] = Terminate(@)], marked, throws)
                         EXCEPT !.pinged = @ \cup {client},
                                !.threw = @ \cup {client},
                                !.terminated = @ \cup {client}]
                 [] OTHER ->
                      [rs |-> state, isAlive |-> marked, pinged |-> {client},
                       threw |-> {client}, terminated |-> {}, raised |-> TRUE]

PingEach(members, state, alive, throws) ==
  PingVisit(SetOrder(members), state, alive, throws)

PingClients(throws) ==
  LET r == PingEach(wssClients, rs, isAlive, throws) IN
  /\ wssClients # {}
  /\ rs' = r.rs
  /\ isAlive' = r.isAlive
  /\ out' = [Did("pingClients", "none") EXCEPT !.threw = r.threw,
                                              !.terminated = r.terminated,
                                              !.raised = r.raised]
  /\ UNCHANGED <<greeting, greeted, clients, wssClients, orders, calls>>

\* ------------------------------------------------------------ connection
\* wss.on('connection'): a new socket, in a slot whose last socket is closed.
Connection(s) ==
  /\ rs[s] \in {"NONE", "CLOSED"}
  /\ rs' = [rs EXCEPT ![s] = "OPEN"]
  /\ isAlive' = [isAlive EXCEPT ![s] = TRUE]
  /\ clients' = clients \cup {s}
  /\ wssClients' = wssClients \cup {s}
  /\ greeting' = [greeting EXCEPT ![s] = TRUE]
  /\ greeted' = [greeted EXCEPT ![s] = 0]
  /\ out' = Did("connection", "none")
  /\ UNCHANGED <<orders, calls>>

\* mutant: the greeting is never due
GreetingDueNever(state) == FALSE

\* if (ws.readyState === WebSocket.OPEN)
GreetingDue(state) == state = "OPEN"

\* the setTimeout(..., 100) of the connection handler
Greeting(s, fails) ==
  LET due == GreetingDue(rs[s]) IN
  /\ greeting[s]
  /\ greeting' = [greeting EXCEPT ![s] = FALSE]
  /\ greeted' = [greeted EXCEPT ![s] = IF due /\ ~fails THEN @ + 1 ELSE @]
  /\ out' = IF due
            THEN [Did("greeting", "none") EXCEPT
                    !.sends = <<[to |-> s, envelope |-> ConnectionEnvelope]>>,
                    !.threw = IF fails THEN {s} ELSE {}]
            ELSE Did("greeting", "none")
  /\ UNCHANGED <<rs, isAlive, clients, wssClients, orders, calls>>

\* ws.on('pong')
Pong(s) ==
  /\ rs[s] = "OPEN"
  /\ ~isAlive[s]
  /\ isAlive' = [isAlive EXCEPT ![s] = TRUE]
  /\ out' = Did("pong", "none")
  /\ UNCHANGED <<rs, greeting, greeted, clients, wssClients, orders, calls>>

\* ws.on('message'): a frame that parses is echoed to its sender
ClientMessage(s, parses, fails) ==
  /\ rs[s] = "OPEN"
  /\ out' = IF parses
            THEN [Did("message", "none") EXCEPT
                    !.sends = <<[to |-> s, envelope |-> EchoEnvelope]>>,
                    !.threw = IF fails THEN {s} ELSE {}]
            ELSE Did("message", "none")
  /\ UNCHANGED <<rs, isAlive, greeting, greeted, clients, wssClients, orders, calls>>

\* mutant: the delete empties the set
DeleteEvery(set, s) == {}

\* clients.delete(ws), and the library's own removal from wss.clients
Delete(set, s) == set \ {s}

\* ws.on('error'): the library closes the socket on an error; the handler drops
\* it from the application's set only.
SessionError(s) ==
  /\ rs[s] \in {"OPEN", "CLOSING"}
  /\ s \in clients
  /\ rs' = [rs EXCEPT ![s] = Terminate(@)]
  /\ clients' = Delete(clients, s)
  /\ out' = Did("error", "none")
  /\ UNCHANGED <<isAlive, greeting, greeted, wssClients, orders, calls>>

\* ws.on('close'), after a terminate or when the peer went away: the library
\* takes the socket out of wss.clients, the handler out of the application's set.
\* Nothing reads the closed socket's isAlive again, and its greeting timer finds
\* it not OPEN and sends nothing: both are dropped with the socket.
SessionClose(s) ==
  /\ rs[s] \in {"OPEN", "CLOSING"}
  /\ rs' = [rs EXCEPT ![s] = "CLOSED"]
  /\ clients' = Delete(clients, s)
  /\ wssClients' = Delete(wssClients, s)
  /\ isAlive' = [isAlive EXCEPT ![s] = FALSE]
  /\ greeting' = [greeting EXCEPT ![s] = FALSE]
  /\ greeted' = [greeted EXCEPT ![s] = 0]
  /\ out' = Did("close", "none")
  /\ UNCHANGED <<orders, calls>>

\* ---------------------------------------------------------------- store
\* The order store behind ./storage: createOrder(data) -> Order | Error assigns
\* the next identifier; updateOrderStatus(id, patch) -> Order | null.
StoreCreateOrder(store, fails) ==
  IF fails
  THEN [result |-> "error", order |-> NoOrder, orders |-> store]
  ELSE [result |-> "order",
        order |-> [id |-> Len(store) + 1, status |-> "Pending"],
        orders |-> Append(store, "Pending")]

StoreUpdateOrderStatus(store, id, status, fails) ==
  IF fails
  THEN [result |-> "error", order |-> NoOrder, orders |-> store]
  ELSE IF id \notin DOMAIN store
  THEN [result |-> "null", order |-> NullOrder, orders |-> store]
  ELSE [result |-> "order",
        order |-> [id |-> id, status |-> status],
        orders |-> [store EXCEPT ![id] = status]]

FreeRequest == CHOOSE n \in 1..(MaxCalls + 1) : \A c \in calls : c.req # n

\* ---------------------------------------------------------------- routes
ParsesAnything(valid) == TRUE

\* insertOrderSchema.parse(req.body) does not throw
Parses(valid) == valid

\* POST /api/orders up to the await: a body the schema rejects is answered 400
\* and never reaches the store.
PostOrders(valid) ==
  /\ Cardinality(calls) < MaxCalls
  /\ Len(orders) + Cardinality({c \in calls : c.op = "createOrder"}) < MaxOrders
  /\ IF Parses(valid)
     THEN /\ calls' = calls \cup {[req |-> FreeRequest, op |-> "createOrder",
                                   id |-> 0, status |-> "Pending"]}
          /\ out' = Did("POST /api/orders", "pending")
     ELSE /\ calls' = calls
          /\ out' = Did("POST /api/orders", "400")
  /\ UNCHANGED <<rs, isAlive, greeting, greeted, clients, wssClients, orders>>

\* storage.updateOrderStatus(id, updates) up to the await
UpdateOrderStatus(id, status) ==
  /\ Cardinality(calls) < MaxCalls
  /\ calls' = calls \cup {[req |-> FreeRequest, op |-> "updateOrderStatus",
                           id |-> id, status |-> status]}
  /\ out' = Did("updateOrderStatus", "pending")
  /\ UNCHANGED <<rs, isAlive, greeting, greeted, clients, wssClients, orders>>

\* the statuses a client asks for; rejectOrder asks for "Rejected"
Statuses == {"Pending", "Preparing", "Delivered", "Rejected"}

\* mutant: the schema lets every status through
UpdateSchemaParsesAll(status) == TRUE

\* updateSchema.parse(req.body) does not throw: status is refined to one of
\* Pending, Preparing, Delivered
UpdateSchemaParses(status) == status \in {"Pending", "Preparing", "Delivered"}

\* PATCH /api/orders/:id/status with body {status} up to the await: a body the
\* schema rejects is answered 400 and never reaches storage.updateOrderStatus.
PatchOrderStatus(id, status) ==
  /\ Cardinality(calls) < MaxCalls
  /\ IF UpdateSchemaParses(status)
     THEN /\ calls' = calls \cup {[req |-> FreeRequest, op |-> "updateOrderStatus",
                                   id |-> id, status |-> status]}
          /\ out' = Did("PATCH /api/orders/:id/status", "pending")
     ELSE /\ calls' = calls
          /\ out' = Did("PATCH /api/orders/:id/status", "400")
  /\ UNCHANGED <<rs, isAlive, greeting, greeted, clients, wssClients, orders>>

\* useOrders' rejectOrder: ordersAuthApi.patch(..., {status: "Rejected"})
RejectOrder(id) == PatchOrderStatus(id, "Rejected")

\* ---------------------------------------------------------- interceptors
\* mutant: the interceptor returns nothing
ReturnsNothing(r) == NoOrder

\* return newOrder / return updatedOrder: the value of the original
Returns(r) == r.order

\* What an interceptor does once the original operation has settled: an error
\* propagates to the caller; otherwise the envelope is broadcast when notifies,
\* and the value of the original is returned.
Settle(call, r, notifies, envelope, throws) ==
  LET b == Broadcast(wssClients, rs, envelope, throws) IN
  /\ calls' = calls \ {call}
  /\ orders' = r.orders
  /\ IF r.result # "error" /\ notifies
     THEN /\ rs' = b.rs
          /\ out' = [op |-> call.op, result |-> r.result,
                     returned |-> IF b.raised THEN NoOrder ELSE Returns(r),
                     sends |-> b.sends, threw |-> b.threw,
                     terminated |-> b.terminated, raised |-> b.raised]
     ELSE /\ rs' = rs
          /\ out' = [Did(call.op, r.result) EXCEPT
                      !.returned = IF r.result = "error" THEN NoOrder
                                   ELSE Returns(r)]
  /\ UNCHANGED <<isAlive, greeting, greeted, clients, wssClients>>

\* the createOrder interceptor broadcasts whatever the original returned
CreateNotifies(result) == TRUE

CreateOrderReturns(call, fails, throws) ==
  LET r == StoreCreateOrder(orders, fails) IN
  /\ call \in calls
  /\ call.op = "createOrder"
  /\ Settle(call, r, CreateNotifies(r.result), NewOrderEnvelope(r.order), throws)

UpdateNotifiesAlways(result) == TRUE

\* if (updatedOrder)
UpdateNotifies(result) == result = "order"

UpdateOrderStatusReturns(call, fails, throws) ==
  LET r == StoreUpdateOrderStatus(orders, call.id, call.status, fails) IN
  /\ call \in calls
  /\ call.op = "updateOrderStatus"
  /\ Settle(call, r, UpdateNotifies(r.result), StatusUpdateEnvelope(r.order), throws)

\* --------------------------------------------------------- server steps
\* The parts of the server's next-state relation: S are the session slots in use,
\* IDS and ST the order ids and statuses that status updates name.
Sockets(S) ==
  \/ \E s \in S : Connection(s)
  \/ \E s \in S : SessionClose(s)

Traffic(S) ==
  \/ \E s \in S, fails \in BOOLEAN : Greeting(s, fails)
  \/ \E s \in S, parses \in BOOLEAN, fails \in BOOLEAN : ClientMessage(s, parses, fails)
  \/ \E s \in S : SessionError(s)

Heartbeat(S) ==
  \/ \E s \in S : Pong(s)
  \/ \E throws \in SUBSET S : PingClients(throws)

Creates(S) ==
  \/ \E valid \in BOOLEAN : PostOrders(valid)
  \/ \E call \in calls, fails \in BOOLEAN, throws \in SUBSET S :
       CreateOrderReturns(call, fails, throws)

Updates(S, IDS, ST) ==
  \/ \E id \in IDS, status \in ST : UpdateOrderStatus(id, status)
  \/ \E call \in calls, fails \in BOOLEAN, throws \in SUBSET S :
       UpdateOrderStatusReturns(call, fails, throws)

\* status changes that arrive through the route
Patches(S, IDS, ST) ==
  \/ \E id \in IDS, status \in ST : PatchOrderStatus(id, status)
  \/ \E id \in IDS : RejectOrder(id)
  \/ \E call \in calls, fails \in BOOLEAN, throws \in SUBSET S :
       UpdateOrderStatusReturns(call, fails, throws)

\* ------------------------------------------------------ specifications
\* The parts of the client's next-state relation: P are the instances that act, AR
\* and ST the values the props autoReconnect and showToasts take, cap the number of
\* counted closes, FR the frames the server sends.
Lifecycle(P, AR, ST) ==
  \/ \E i \in P, ar \in AR, st \in ST : Mount(i, ar, st)
  \/ \E i \in P : Unmount(i)
  \/ \E i \in P, ar \in AR, st \in ST : Rerun(i, ar, st)
  \/ \E i \in P, visible \in BOOLEAN, ar \in AR, st \in ST :
       VisibilityChange(i, visible, ar, st)
  \/ \E i \in P, ar \in AR, st \in ST : Reconnect(i, ar, st)

Transport(P, cap) ==
  \/ \E i \in P : SocketOpen(i)
  \/ \E i \in P : RemoteClosing(i)
  \/ \E i \in P, failed \in BOOLEAN : SocketClose(i, failed, cap)
  \/ \E i \in P, failed \in BOOLEAN : \E h \in old[i] : OldClose(i, h, failed, cap)

Clock(P) ==
  \/ \E i \in P : TimerFire(i)
  \/ Tick

Dispatch(P, FR) ==
  \E i \in P, frame \in FR, isAdmin \in BOOLEAN, isMyOrder \in BOOLEAN :
    Message(i, frame, isAdmin, isMyOrder)

\* Two provider instances with alerts enabled, the server sending order events.
Next ==
  /\ \/ Clock(1..Pair)
     \/ Lifecycle(1..Pair, BOOLEAN, {TRUE})
     \/ Transport(1..Pair, MaxRetries)
     \/ Dispatch(1..Pair, {"new-order", "malformed"})
  /\ UNCHANGED serverVars

Spec == Init /\ [][Next]_vars

\* The same two instances with auto-reconnect on, followed through the whole
\* backoff sequence; frames play no part in it.
NextBackoff ==
  /\ \/ Clock(1..Pair)
     \/ Lifecycle(1..Pair, {TRUE}, {TRUE})
     \/ Transport(1..Pair, MaxAttempts)
  /\ UNCHANGED serverVars

SpecBackoff == Init /\ [][NextBackoff]_vars

\* Every provider instance of the runtime, within one rate-limit window: no tick
\* passes, so each instance opens at most one handle.
NextOwners ==
  /\ \/ Lifecycle(Providers, {TRUE}, {TRUE})
     \/ Transport(Providers, MaxRetries)
  /\ UNCHANGED serverVars

SpecOwners == Init /\ [][NextOwners]_vars

\* Two instances with alerts on or off, receiving status updates for the orders
\* of any guest while the page remembers any order context.
Alerts(P) ==
  \E i \in P, isAdmin \in BOOLEAN, details \in OrderDetails, order \in OrderContacts :
    StatusUpdate(i, isAdmin, details, order)

NextAlerts ==
  /\ \/ Lifecycle(1..Pair, {TRUE}, BOOLEAN)
     \/ Transport(1..Pair, MaxRetries)
     \/ Alerts(1..Pair)
  /\ UNCHANGED serverVars

SpecAlerts == Init /\ [][NextAlerts]_vars

\* Two provider instances and one standalone hook in the same page.
HookLifecycle(P, AR, ST) ==
  \/ \E i \in P, ar \in AR, st \in ST : HookMount(i, ar, st)
  \/ \E i \in P : HookUnmount(i)
  \/ \E i \in P, ar \in AR, st \in ST : HookRerun(i, ar, st)
  \/ \E i \in P, visible \in BOOLEAN, ar \in AR, st \in ST :
       HookVisibilityChange(i, visible, ar, st)
  \/ \E i \in P, ar \in AR, st \in ST : HookReconnect(i, ar, st)
  \/ \E i \in P : HookTimerFire(i)

NextManagers ==
  /\ \/ Clock(1..Pair)
     \/ Lifecycle(1..Pair, {TRUE}, {TRUE})
     \/ HookLifecycle(Providers \ (1..Pair), {TRUE}, {TRUE})
     \/ Transport(Providers, 1)
  /\ UNCHANGED serverVars

SpecManagers == Init /\ [][NextManagers]_vars

HookDispatch(P, FR) ==
  \E i \in P, frame \in FR, isAdmin \in BOOLEAN, isMyOrder \in BOOLEAN :
    HookMessage(i, frame, isAdmin, isMyOrder)

\* Two providers, with alerts on or off, receiving every kind of frame.
NextDispatch ==
  /\ \/ Lifecycle(1..Pair, {TRUE}, BOOLEAN)
     \/ Transport(1..Pair, 1)
     \/ Dispatch(1..Pair, Frames)
  /\ UNCHANGED serverVars

SpecDispatch == Init /\ [][NextDispatch]_vars

\* Two providers and one hook with alerts on, receiving envelopes of types the
\* dispatcher has no case for.
NextIgnorable ==
  /\ \/ Lifecycle(1..Pair, {TRUE}, {TRUE})
     \/ HookLifecycle(Providers \ (1..Pair), {TRUE}, {TRUE})
     \/ Transport(Providers, 1)
     \/ Dispatch(1..Pair, {"echo", "unknown"})
     \/ HookDispatch(Providers \ (1..Pair), {"echo", "unknown"})
  /\ UNCHANGED serverVars

SpecIgnorable == Init /\ [][NextIgnorable]_vars

\* Two providers and one hook whose handles raise error events.
Errors(P) == \E i \in P : ErrorEvent(i)

NextErrors ==
  /\ \/ Lifecycle(1..Pair, {TRUE}, {TRUE})
     \/ HookLifecycle(Providers \ (1..Pair), {TRUE}, {TRUE})
     \/ Transport(Providers, 1)
     \/ Errors(Providers)
  /\ UNCHANGED serverVars

SpecErrors == Init /\ [][NextErrors]_vars

\* The server with every session slot: sessions come and go, orders are created
\* and their status updated, any send may throw.
NextServer ==
  /\ \/ Sockets(Sessions)
     \/ Creates(Sessions)
     \/ Updates(Sessions, OrderIds, {"Delivered"})
  /\ UNCHANGED clientVars

SpecServer == Init /\ [][NextServer]_vars

\* Two sessions, orders created and their status changed through the route.
NextRoute ==
  /\ \/ Sockets(1..Pair)
     \/ Creates(1..Pair)
     \/ Patches(1..Pair, OrderIds, Statuses)
  /\ UNCHANGED clientVars

SpecRoute == Init /\ [][NextRoute]_vars

\* Two sessions under the liveness sweep, with their frames and new orders.
NextHeartbeat ==
  /\ \/ Sockets(1..Pair)
     \/ Traffic(1..Pair)
     \/ Heartbeat(1..Pair)
     \/ Creates(1..Pair)
  /\ UNCHANGED clientVars

SpecHeartbeat == Init /\ [][NextHeartbeat]_vars

\* setInterval(pingClients, 30000) keeps firing, and the library emits 'close'
\* for a socket it destroyed.
Sweep == (\E throws \in SUBSET (1..Pair) : PingClients(throws)) /\ UNCHANGED clientVars

Closed(s) == SessionClose(s) /\ UNCHANGED clientVars

SpecHeartbeatLive ==
  /\ SpecHeartbeat
  /\ WF_vars(Sweep)
  /\ \A s \in 1..Pair : WF_vars(Closed(s))

\* ---------------------------------------------------------- end to end
\* The two ends of a connection: session i is the server's end of the connection
\* of the handle of instance i.  The server admits the connection and the handle
\* opens; the browser answers a ping while its handle is open; the handle of a
\* connection the server destroyed closes; the server's socket closes once the
\* server destroyed it or the client let go of the handle.
Accepted(i) == Connection(i) /\ SocketOpen(i)

Refused(i, cap) ==
  /\ socket[i].rs = "CONNECTING"
  /\ SocketClose(i, TRUE, cap)
  /\ UNCHANGED serverVars

Answered(i) ==
  /\ socket[i].rs = "OPEN"
  /\ Pong(i)
  /\ UNCHANGED clientVars

Severed(i, failed, cap) ==
  /\ socket[i].rs = "OPEN"
  /\ rs[i] \in {"CLOSING", "CLOSED"}
  /\ SocketClose(i, failed, cap)
  /\ UNCHANGED serverVars

PeerGone(i) ==
  /\ rs[i] = "CLOSING" \/ socket[i].rs # "OPEN"
  /\ SessionClose(i)
  /\ UNCHANGED clientVars

EndToEnd(P, cap) ==
  \/ \E i \in P : Accepted(i)
  \/ \E i \in P : Refused(i, cap)
  \/ \E i \in P : Answered(i)
  \/ \E i \in P, failed \in BOOLEAN : Severed(i, failed, cap)
  \/ \E i \in P : PeerGone(i)
  \/ \E throws \in SUBSET P : PingClients(throws) /\ UNCHANGED clientVars
  \/ \E i \in P, failed \in BOOLEAN : \E h \in old[i] :
       OldClose(i, h, failed, cap) /\ UNCHANGED serverVars

\* Two providers with auto-reconnect on, connected to the server under its
\* liveness sweep, up to the first close of each connection: the retry timer that
\* the close sets is not followed further here.
NextEndToEnd ==
  \/ Lifecycle(1..Pair, {TRUE}, {TRUE}) /\ UNCHANGED serverVars
  \/ EndToEnd(1..Pair, 1)

SpecEndToEnd == Init /\ [][NextEndToEnd]_vars

\* the close event of a destroyed connection is delivered
SpecEndToEndLive ==
  /\ SpecEndToEnd
  /\ \A i \in 1..Pair : WF_vars(\E failed \in BOOLEAN : Severed(i, failed, 1))

\* ------------------------------------------------------------------ claims
ActiveHandles == {i \in Providers : Active(socket[i])}

\* C1 (as claimed): with several providers mounted, at most one transport handle
\* across all instances is Open or Connecting.
C1_Singleton == Cardinality(ActiveHandles) <= 1

\* C2 (as claimed): when a provider mounts while no other provider is mounted, a
\* handle in the Connecting state exists right after the mount effect ran.
C2_ConnectOnMount ==
  [][\A i \in Providers :
       (~mounted[i] /\ mounted'[i] /\ \A j \in Providers \ {i} : ~mounted[j])
         => socket'[i].rs = "CONNECTING"]_vars

\* C3 (as claimed): when the backoff timer of a mounted provider expires, the
\* manager opens a new transport handle; the timer alone carries the retry on.
C3_TimerRetries ==
  [][\A i \in Providers :
       (TimerFire(i) /\ mounted[i] /\ ~isUnmounting[i]) => Active(socket'[i])]_vars

\* The delays the backoff is specified to schedule, in ticks of 1000 ms:
\* 1, 2, 4, 8, 16, 30, 30, ...
ExpectedDelay(k) == IF k <= 5 THEN <<1, 2, 4, 8, 16>>[k] ELSE 30

\* C4 (as claimed): the k-th consecutive close since the last successful open
\* schedules the retry after min(1000 * 2^(k-1), 30000) ms.
C4_BackoffSinceOpen ==
  \A i \in Providers :
    timer[i] # NoTimer => timer[i].delay = ExpectedDelay(closes[i].sinceOpen)

\* C4 (amended): the k-th consecutive close since the last successful open or
\* manual reconnect schedules the retry after min(1000 * 2^(k-1), 30000) ms.
C4_BackoffSinceReset ==
  \A i \in Providers :
    timer[i] # NoTimer => timer[i].delay = ExpectedDelay(closes[i].sinceReset)

\* The sixth close in a row has scheduled the 30 s retry.
C4_Witness ==
  \E i \in Providers :
    /\ mounted[i]
    /\ closes[i].sinceReset = 6
    /\ timer[i] # NoTimer
    /\ timer[i].delay = 30

\* C5: two successive transport creations by one instance are at least 3000 ms
\* apart, whatever asked for them.
C5_RateLimit ==
  [][\A i \in Providers :
       (fired'.by = i /\ "new WebSocket" \in fired'.evs)
         => sinceCreate[i] >= MIN_INTERVAL]_vars

\* A retry was asked for inside the window and declined: the handle stays closed,
\* and no timer is pending.
C5_Witness ==
  \E i \in Providers :
    /\ mounted[i]
    /\ socket[i].rs = "CLOSED"
    /\ reconnectAttempts[i] > 0
    /\ timer[i] = NoTimer
    /\ sinceAttempt[i] < MIN_INTERVAL

OwnerCallbacks == {"new WebSocket", "onConnect", "onDisconnect", "onNewOrder",
                   "onOrderStatusUpdate"}

\* C6: once the owning context is unmounted no retry timer is pending, and no later
\* event creates a transport handle or invokes onConnect, onDisconnect, onNewOrder
\* or onOrderStatusUpdate for that instance.
C6_TeardownSafety ==
  \A i \in Providers :
    ~mounted[i] =>
      /\ timer[i] = NoTimer
      /\ fired.by = i => fired.evs \cap OwnerCallbacks = {}

\* An unmounted instance one of whose earlier handles has its close still to come.
C6_Witness ==
  \E i \in Providers : ~mounted[i] /\ isUnmounting[i] /\ old[i] # {}

OpenSessions == {s \in wssClients : rs[s] = "OPEN"}

SentTo(o) == {o.sends[k].to : k \in DOMAIN o.sends}

SendsTo(o, s) == Cardinality({k \in DOMAIN o.sends : o.sends[k].to = s})

\* a wrapped store call settles: only then a call leaves the calls in flight
Settles == calls' # calls /\ calls' \subseteq calls

\* C7: a broadcast over any set of open sessions, any subset of which throws on
\* send, calls send for every open session and so delivers the envelope to each
\* one that does not throw, terminates exactly the sessions that threw, and
\* raises nothing to its caller.
C7_BroadcastIsolation ==
  [][(Settles /\ out'.result = "order")
       => /\ SentTo(out') = OpenSessions
          /\ out'.terminated = out'.threw
          /\ \A s \in Sessions :
               rs'[s] = IF s \in out'.threw THEN "CLOSING" ELSE rs[s]
          /\ ~out'.raised]_vars

C7_Witness ==
  /\ out.op \in {"createOrder", "updateOrderStatus"}
  /\ Len(out.sends) = 3
  /\ Cardinality(out.threw) = 1
  /\ \A s \in out.threw : rs[s] = "CLOSING"

\* C8: when createOrder with valid data has created the order, send is called
\* exactly once per session open at that time and not at all for any other, with
\* a new-order envelope that carries the order under its assigned identifier; a
\* POST whose body fails the schema reaches no store call and sends nothing.
C8_MutationBroadcast ==
  [][
     /\ (Settles /\ out'.op = "createOrder" /\ out'.result = "order")
          => /\ \A s \in Sessions :
                  SendsTo(out', s) = IF s \in OpenSessions THEN 1 ELSE 0
             /\ Len(orders') = Len(orders) + 1
             /\ \A k \in DOMAIN out'.sends :
                  out'.sends[k].envelope =
                    [type |-> "new-order",
                     order |-> [id |-> Len(orders'), status |-> orders'[Len(orders')]]]
     /\ (PostOrders(FALSE) => (calls' = calls /\ out'.sends = <<>>))
  ]_vars

C8_Witness ==
  /\ out.op = "createOrder"
  /\ out.result = "order"
  /\ Len(out.sends) >= 2
  /\ out.threw = {}
  /\ out.sends[1].envelope.order.id = 2

OrderEnvelopes(o) ==
  {o.sends[k].envelope : k \in DOMAIN o.sends} \ {ConnectionEnvelope, EchoEnvelope}

\* C9: for both wrapped operations an order envelope is sent only in the step in
\* which the underlying operation returned an order, and it carries that order as
\* the store now holds it; when the operation throws or returns null nothing is
\* sent and no session is touched.
C9_CommittedOnly ==
  [][
     /\ Settles
          => IF out'.result = "order"
             THEN \A e \in OrderEnvelopes(out') :
                    /\ e.order.id \in DOMAIN orders'
                    /\ orders'[e.order.id] = e.order.status
             ELSE /\ out'.result \in {"error", "null"}
                  /\ out'.sends = <<>>
                  /\ rs' = rs
     /\ (OrderEnvelopes(out') # {} => (out'.result = "order" /\ (Settles \/ out' = out)))
  ]_vars

C9_Witness ==
  /\ out.op = "updateOrderStatus"
  /\ out.result = "null"
  /\ Cardinality(OpenSessions) >= 2

Probed(s) == s \in wssClients /\ rs[s] = "OPEN" /\ ~isAlive[s]

C11_ManualReconnect ==
  [][\A i \in Providers, ar \in BOOLEAN, st \in BOOLEAN :
       Reconnect(i, ar, st)
         => /\ reconnectAttempts'[i] = 0
            /\ timer'[i] = NoTimer
            /\ \A h \in old'[i] : "close" \notin h.on
            /\ socket'[i].rs = "CONNECTING"
            /\ "new WebSocket" \in fired'.evs]_vars

\* C12 (as claimed): when the page becomes visible while the handle of a mounted
\* provider is neither Open nor Connecting, the pending timer is cancelled and a
\* new handle is created in that step; otherwise the event changes nothing.
C12_VisibilityRecovery ==
  [][\A i \in Providers, visible \in BOOLEAN, ar \in BOOLEAN, st \in BOOLEAN :
       VisibilityChange(i, visible, ar, st)
         => IF visible /\ ~Active(socket[i])
            THEN /\ timer'[i] = NoTimer
                 /\ socket'[i].rs = "CONNECTING"
                 /\ "new WebSocket" \in fired'.evs
            ELSE /\ socket' = socket
                 /\ timer' = timer]_vars

StatusAlert == "toast:Order Status Updated"

\* C13 (as claimed): with alerts enabled a status update is surfaced to a
\* non-administrative client exactly when the remembered room is the order's room,
\* and always to an administrative client.
C13_RoomFilter ==
  [][\A i \in Providers, isAdmin \in BOOLEAN,
        details \in OrderDetails, order \in OrderContacts :
       (StatusUpdate(i, isAdmin, details, order) /\ socket[i].st)
         => (StatusAlert \in fired'.evs
               <=> (isAdmin \/ details.roomNumber = order.roomNumber))]_vars

\* C13 (amended): with alerts enabled a status update is surfaced exactly when the
\* client is administrative or the remembered room number or the remembered
\* mobile number is the order's; with alerts disabled it is never surfaced; the
\* callback and the bus event fire either way.
C13_ContactFilter ==
  [][\A i \in Providers, isAdmin \in BOOLEAN,
        details \in OrderDetails, order \in OrderContacts :
       StatusUpdate(i, isAdmin, details, order)
         => /\ StatusAlert \in fired'.evs
                 <=> /\ socket[i].st
                     /\ \/ isAdmin
                        \/ details.roomNumber = order.roomNumber
                        \/ details.mobileNumber = order.mobileNumber
            /\ {"onOrderStatusUpdate", "ws:order-status-update"} \subseteq fired'.evs]_vars

C13_Witness ==
  \E i \in Providers :
    /\ fired.by = i
    /\ socket[i].st
    /\ "onOrderStatusUpdate" \in fired.evs
    /\ StatusAlert \notin fired.evs

\* C14 (as claimed): every admitted session has received exactly one connection
\* envelope by the end of its lifetime.
C14_ExactlyOneGreeting ==
  [][\A s \in Sessions :
       (rs[s] \in {"OPEN", "CLOSING"} /\ rs'[s] = "CLOSED") => greeted[s] = 1]_vars

\* C14 (amended): no session receives two connection envelopes; the only send of
\* one is made when the admission delay elapses, and it is made when the session
\* is still open then; a session that is closed or terminated by then gets none.
C14_AtMostOneGreeting ==
  /\ [](\A s \in Sessions : greeted[s] <= 1)
  /\ [][\A s \in Sessions :
         /\ (greeting[s] /\ ~greeting'[s] /\ rs'[s] = "OPEN")
              => /\ out'.sends = <<[to |-> s, envelope |-> ConnectionEnvelope]>>
                 /\ greeted'[s] = IF s \in out'.threw THEN 0 ELSE 1
         /\ greeted'[s] > greeted[s] => (greeting[s] /\ rs[s] = "OPEN")]_vars

C14_Witness ==
  \E s \in Sessions : rs[s] = "OPEN" /\ ~greeting[s] /\ greeted[s] = 1

\* what the underlying operation does with the arguments of call
Underlying(call, fails) ==
  IF call.op = "createOrder"
  THEN StoreCreateOrder(orders, fails)
  ELSE StoreUpdateOrderStatus(orders, call.id, call.status, fails)

\* C15: when a wrapped createOrder or updateOrderStatus settles, the store is as
\* the underlying operation leaves it for the arguments of the call, and the
\* caller gets exactly its value or its error, whatever sends threw meanwhile.
C15_Transparency ==
  [][Settles
       => \E call \in calls \ calls', fails \in BOOLEAN :
            LET r == Underlying(call, fails) IN
            /\ out'.op = call.op
            /\ out'.result = r.result
            /\ out'.returned = r.order
            /\ orders' = r.orders
            /\ ~out'.raised]_vars

C15_Witness ==
  /\ out.op = "updateOrderStatus"
  /\ out.threw # {}
  /\ out.returned.id \in OrderIds
  /\ out.returned.status = "Delivered"

\* C16: the module-level flag isProviderMounted is true exactly when at least
\* one provider instance is mounted.
C16_FlagSymmetry ==
  isProviderMounted <=> (\E i \in Providers : mounted[i])

\* C17: an instance never has more than one retry timeout outstanding, and the
\* one it has is the one reconnectTimeoutRef refers to.
C17_OneTimer ==
  \A i \in Providers :
    /\ timers[i] \in {0, 1}
    /\ timers[i] = 1 <=> timer[i] # NoTimer

\* onclose has just set the second timeout of an instance, the first having run
C17_Witness ==
  \E i \in Providers :
    /\ fired.by = i
    /\ "setTimeout" \in fired.evs
    /\ reconnectAttempts[i] = 2
    /\ timer[i] # NoTimer
    /\ timers[i] = 1

\* C18: an instance, provider or hook, never has two handles that are open or
\* connecting; connectSocket makes no handle while the current one is open or
\* connecting, and a handle the instance lets go of has been closed.
C18_OneHandle ==
  \A i \in Providers :
    /\ \A h \in old[i] : ~Active(h)
    /\ Active(socket[i])
         => /\ ~HookConnectSocket(socket[i], isUnmounting[i], TRUE, TRUE).created
            /\ \A flag \in BOOLEAN, since \in 0..MIN_INTERVAL :
                 ~ConnectSocket(flag, socket[i], isUnmounting[i], since, TRUE, TRUE).created

\* a provider and the hook have each let go of an open handle and hold a new,
\* connecting one
C18_Witness ==
  \E i \in 1..Pair, j \in Providers \ (1..Pair) :
    /\ socket[i].rs = "CONNECTING" /\ isConnected[i]
    /\ socket[j].rs = "CONNECTING" /\ isConnected[j]

\* C19: a handle the manager has closed or replaced has none of its four
\* handlers left, so that no event of it reaches the manager.
C19_TeardownDiscipline ==
  \A i \in Providers : \A h \in old[i] : h.on = {}

\* C20: isConnected of a mounted manager is true only while its current handle
\* is open.
C20_ConnectedMeansOpen ==
  \A i \in Providers :
    (mounted[i] /\ isConnected[i]) => socket[i].rs \notin {"NULL", "CONNECTING", "CLOSED"}

C22_ProbeIsolation ==
  [][out'.op = "pingClients"
       => /\ ~out'.raised
          /\ \A s \in wssClients :
               /\ ~isAlive'[s]
               /\ s \in out'.terminated <=> (~isAlive[s] \/ s \in out'.threw)
               /\ rs'[s] = IF s \in out'.terminated THEN Terminate(rs[s]) ELSE rs[s]
          /\ \A s \in Sessions \ wssClients : rs'[s] = rs[s] /\ isAlive'[s] = isAlive[s]
    ]_vars

\* the ping of the first client threw, the client after it was pinged all the same
C22_Witness ==
  /\ out.op = "pingClients"
  /\ \E s \in out.threw, t \in wssClients \ out.terminated :
       /\ s < t
       /\ rs[s] = "CLOSING"
       /\ rs[t] = "OPEN"
       /\ ~isAlive[t]

\* C23: when the handle of a mounted provider closes because the sweep
\* terminated its session, isConnected becomes false and, with auto-reconnect on
\* and no timer pending, reconnectAttempts grows by one and the backoff timer
\* is set; and the close does reach the client.
C23_EvictionSeen ==
  /\ [][\A i \in Providers :
          (/\ rs[i] \in {"CLOSING", "CLOSED"}
           /\ socket[i].rs = "OPEN"
           /\ socket'[i].rs = "CLOSED"
           /\ mounted[i])
            => /\ ~isConnected'[i]
               /\ "onDisconnect" \in fired'.evs
               /\ (socket[i].ar /\ timer[i] = NoTimer)
                    => /\ reconnectAttempts'[i] = reconnectAttempts[i] + 1
                       /\ timer'[i] = SetTimeout(BackoffDelay(reconnectAttempts'[i]))
                       /\ timers'[i] = 1
       ]_vars
  /\ \A i \in 1..Pair :
       (rs[i] = "CLOSING" /\ socket[i].rs = "OPEN") ~> (socket[i].rs # "OPEN")

\* the provider has seen the close of the session the sweep terminated
C23_Witness ==
  \E i \in Providers :
    /\ mounted[i]
    /\ socket[i].rs = "CLOSED"
    /\ rs[i] = "CLOSING"
    /\ ~isConnected[i]
    /\ reconnectAttempts[i] = 1
    /\ timer[i] # NoTimer
    /\ fired.by = i
    /\ "setTimeout" \in fired.evs

\* C24: a session leaves the application's set by its error or close event and
\* wss.clients by its close event, and no other session leaves with it; the
\* close event leaves both registries without the session whether or not the
\* error event had removed it before; terminating a session does not touch
\* the registries, and terminating it again changes nothing.
C24_IdempotentUnregister ==
  [][\A s \in Sessions :
       /\ (s \in clients /\ s \notin clients')
            => (out'.op \in {"error", "close"} /\ clients' = clients \ {s})
       /\ (s \in wssClients /\ s \notin wssClients')
            => (out'.op = "close" /\ wssClients' = wssClients \ {s})
       /\ (out'.op = "close" /\ rs[s] # "CLOSED" /\ rs'[s] = "CLOSED")
            => (clients' = clients \ {s} /\ wssClients' = wssClients \ {s})
       /\ (s \in out'.terminated /\ out' # out)
            => /\ clients' = clients
               /\ wssClients' = wssClients
               /\ rs'[s] = "CLOSING"
               /\ \A t \in Sessions \ out'.terminated : rs'[t] = rs[t]
    ]_vars

\* the sweep has terminated again a session that its error event had already
\* taken out of the application's set; its close event is still to come
C24_Witness ==
  /\ out.op = "pingClients"
  /\ \E s \in out.terminated :
       /\ s \notin clients
       /\ s \in wssClients
       /\ rs[s] = "CLOSING"
       /\ clients # {}

\* the alerts a manager can raise
AlertKinds == {"toast:New Order Received", "toast:Order Status Updated",
               "toast:Connected to server", "toast:Disconnected from server",
               "toast:Connection Error"}

\* C25: a new-order or order-status-update envelope received by a mounted
\* provider runs its callback and its document event whatever the admin flag
\* and the remembered order are; the new-order alert is raised only for an
\* administrative client; a connection envelope raises no alert.
C25_CallbacksAlways ==
  [][\A i \in 1..Pair, frame \in Frames, isAdmin \in BOOLEAN, isMyOrder \in BOOLEAN :
       Message(i, frame, isAdmin, isMyOrder)
         => /\ frame = "new-order"
                 => /\ {"onNewOrder", "ws:new-order"} \subseteq fired'.evs
                    /\ "toast:New Order Received" \in fired'.evs => isAdmin
            /\ frame = "order-status-update"
                 => {"onOrderStatusUpdate", "ws:order-status-update"} \subseteq fired'.evs
            /\ frame = "connection" => fired'.evs \cap AlertKinds = {}
    ]_vars

\* a client that is not administrative got a new-order envelope: callback and
\* event ran, no alert
C25_Witness ==
  \E i \in 1..Pair :
    /\ mounted[i]
    /\ fired = [by |-> i, evs |-> {"onNewOrder", "ws:new-order"}]
    /\ socket[i].st
    /\ lastMessage[i] = "new-order"

\* C26: a frame that does not parse runs no callback, no document event and no
\* alert, and leaves the handle, isConnected, reconnectAttempts, the timer and
\* lastMessage as they were.
C26_MalformedDropped ==
  [][\A i \in 1..Pair, isAdmin \in BOOLEAN, isMyOrder \in BOOLEAN :
       Message(i, "malformed", isAdmin, isMyOrder)
         => /\ fired'.evs = {}
            /\ socket' = socket
            /\ old' = old
            /\ isConnected' = isConnected
            /\ reconnectAttempts' = reconnectAttempts
            /\ timer' = timer
            /\ timers' = timers
            /\ lastMessage' = lastMessage
    ]_vars

\* onmessage ran and did nothing, the last message still being a new order:
\* the frame did not parse
C26_Witness ==
  \E i \in 1..Pair :
    /\ fired = [by |-> i, evs |-> {}]
    /\ lastMessage[i] = "new-order"
    /\ socket[i].rs = "OPEN"
    /\ isConnected[i]

\* C27: an envelope of a type other than new-order, order-status-update and
\* connection, received by a provider or by the hook, runs no callback, no
\* document event and no alert, and leaves the handle, reconnectAttempts and
\* the timer as they were.
C27_UnknownIgnored ==
  [][\A i \in Providers, frame \in {"echo", "unknown"},
        isAdmin \in BOOLEAN, isMyOrder \in BOOLEAN :
       (Message(i, frame, isAdmin, isMyOrder) \/ HookMessage(i, frame, isAdmin, isMyOrder))
         => /\ fired'.evs = {}
            /\ socket' = socket
            /\ old' = old
            /\ reconnectAttempts' = reconnectAttempts
            /\ timer' = timer
            /\ timers' = timers
    ]_vars

\* a provider and the hook have each received an envelope of another type, the
\* hook last, and both handles are open
C27_Witness ==
  \E i \in 1..Pair, j \in Providers \ (1..Pair) :
    /\ lastMessage[i] = "echo"
    /\ socket[i].rs = "OPEN"
    /\ lastMessage[j] = "unknown"
    /\ socket[j].rs = "OPEN"
    /\ fired = [by |-> j, evs |-> {}]

FailureAlerts == {"toast:Disconnected from server", "toast:Connection Error"}

\* C28: a disconnect or connection-error alert is raised only by an event that
\* finds more than two reconnect attempts counted since the last open or manual
\* reconnect; none of the first three closes in a row after an open raises one.
C28_AlertsSuppressed ==
  [][\A i \in Providers :
       /\ (fired'.by = i /\ fired'.evs \cap FailureAlerts # {})
            => reconnectAttempts[i] > TOAST_AFTER
       /\ (closes'[i].sinceOpen = closes[i].sinceOpen + 1
              /\ closes'[i].sinceOpen <= TOAST_AFTER + 1)
            => (fired'.by = i => fired'.evs \cap FailureAlerts = {})
    ]_vars

\* the fourth close in a row has raised the disconnect alert
C28_Witness ==
  \E i \in Providers :
    /\ fired.by = i
    /\ "toast:Disconnected from server" \in fired.evs
    /\ closes[i].sinceOpen = TOAST_AFTER + 2
    /\ reconnectAttempts[i] = TOAST_AFTER + 2

\* C29: the error event of a handle leaves the handle, isConnected,
\* reconnectAttempts and the timer as they were and sets no timer; a timer is
\* set only in a step in which a handle of the instance closes.
C29_ErrorDoesNotClose ==
  [][\A i \in Providers :
       /\ ErrorEvent(i)
            => /\ socket' = socket
               /\ old' = old
               /\ isConnected' = isConnected
               /\ reconnectAttempts' = reconnectAttempts
               /\ timer' = timer
               /\ timers' = timers
               /\ fired'.evs \subseteq {"toast:Connection Error"}
       /\ timers'[i] > timers[i]
            => \/ socket[i].rs # "CLOSED" /\ socket'[i].rs = "CLOSED"
               \/ \E h \in old[i] \ old'[i] : "close" \in h.on
    ]_vars

\* onerror of an open handle has run: the manager is connected as before
C29_Witness ==
  \E i \in Providers :
    /\ fired = [by |-> i, evs |-> {}]
    /\ socket[i].rs = "OPEN"
    /\ isConnected[i]
    /\ lastMessage[i] = "none"
    /\ timer[i] = NoTimer

\* C30: an order envelope or an echo is sent to a session only after the
\* connection envelope of that session has been sent.
C30_GreetingFirst ==
  [][\A k \in DOMAIN out'.sends :
       LET to == out'.sends[k].to IN
       (out'.sends[k].envelope.type # "connection" /\ to \notin out'.threw)
         => greeted[to] >= 1
    ]_vars

\* C31: a status change to Pending, Preparing, Delivered or Rejected requested
\* through the route for an existing order is accepted, and once the store has
\* changed the order, exactly one order-status-update envelope is sent to every
\* open session.
C31_EveryTransitionAnnounced ==
  [][
     /\ \A id \in DOMAIN orders, status \in Statuses :
          PatchOrderStatus(id, status) => out'.result = "pending"
     /\ (Settles /\ out'.op = "updateOrderStatus" /\ out'.result = "order")
          => /\ \A s \in Sessions :
                  SendsTo(out', s) = IF s \in OpenSessions THEN 1 ELSE 0
             /\ \A k \in DOMAIN out'.sends :
                  out'.sends[k].envelope.type = "order-status-update"
  ]_vars

\* C32: an open that follows at least one counted reconnect attempt surfaces the
\* 'Connected to server' alert when alerts are enabled, and an open with no
\* preceding failed attempt surfaces none.
C32_RecoveryAnnounced ==
  [][\A i \in Providers :
       (socket[i].rs = "CONNECTING" /\ socket'[i].rs = "OPEN")
         => (("toast:Connected to server" \in fired'.evs)
               <=> (socket[i].st /\ reconnectAttempts[i] > 0))
    ]_vars

====
